---------------------------- MODULE Spec2Model ----------------------------
(***************************************************************************)
(* A model of the contact-map pipeline of acids_classification.ipynb:      *)
(* sampling of PDB IDs, download_pdb_files, extract_sequence_and_contacts, *)
(* the loading loop, the train/val/test split, get_esm2_embeddings,        *)
(* ProteinDataset, ContactPredictionModel.forward's shapes, train_model,   *)
(* evaluate_model and the training cell.                                   *)
(*                                                                         *)
(* Strings of the program are sequences of one-character strings, a PDB ID *)
(* is the sequence of its '_'-separated fields, a coordinate is a point of *)
(* an integer lattice and a matrix is a sequence of rows.                  *)
(***************************************************************************)
EXTENDS Integers, Sequences, FiniteSets, TLC

VARIABLES
    pc,                 \* the cell / call the run is in
    error,              \* the exception that stopped the run, "none" if none
    pdb_ids,            \* the sampled IDs (cell 7)
    disk,               \* pdb_structures/: entry -> << file content >>, or NoFile
    dl_i,               \* download_pdb_files: position of the for loop
    http_log,           \* download_pdb_files: the entries this call requested
    dl_failed,          \* download_pdb_files: the entries this call printed as failed
    dl_calls,           \* the calls of download_pdb_files that returned, in order
    existing_pdb_files, \* cell 12
    ld_i,               \* cell 12: position of the loading loop
    sequences,          \* cell 12
    contact_maps,       \* cell 12
    origin,             \* for each entry of sequences, the file it was read from
    indices,            \* cell 15: the shuffled index list
    train_indices, val_indices, test_indices,
    train_sequences, val_sequences, test_sequences,
    train_contact_maps, val_contact_maps, test_contact_maps,
    train_embeddings, val_embeddings, test_embeddings,
    epoch,              \* training cell: epochs completed
    embedding_dim,      \* cell 22
    last_shapes,        \* the (output, target) shapes of the last train/evaluate call
    ev_loader,          \* evaluate_model: the contact maps the dataloader yields
    ev_outputs,         \* evaluate_model: the model output of each batch so far
    all_predictions,    \* evaluate_model
    all_targets,        \* evaluate_model
    sequence,           \* find_similar_structures: the input sequence
    threshold,          \* find_similar_structures: the threshold, a fraction
    similar_structs,    \* find_similar_structures
    aggregated_struct   \* find_similar_structures: None, or << what it returned >>

vars == << pc, error, pdb_ids, disk, dl_i, http_log, dl_failed, dl_calls,
           existing_pdb_files, ld_i, sequences, contact_maps, origin, indices,
           train_indices, val_indices, test_indices,
           train_sequences, val_sequences, test_sequences,
           train_contact_maps, val_contact_maps, test_contact_maps,
           train_embeddings, val_embeddings, test_embeddings,
           epoch, embedding_dim, last_shapes,
           ev_loader, ev_outputs, all_predictions, all_targets,
           sequence, threshold, similar_structs, aggregated_struct >>

---------------------------------------------------------------------------
(* Bounds of the model and constants of the program.                       *)

\* np.random.choice(pdb_ids, 20): the sample size, scaled down.
SampleSize == 4

\* num_epochs = 10, scaled down.
NumEpochs == 2

\* Longest CA chain of a generated structure file.
MaxRes == 2

\* Most files of a generated download directory.
MaxFiles == 2

\* Longest CA chain whose coordinates are generated.
MaxCoords == 3

\* Most batches of a generated dataloader.
MaxBatches == 2

\* Longest ID list download_pdb_files is called with on its own.
MaxIds == 3

\* Most calls of download_pdb_files on one ID list.
MaxCalls == 3

\* Longest sequence find_similar_structures is given.
MaxSeqLen == 3

\* Most candidates find_similar_structures is given.
MaxCands == 2

\* structure.numAtoms() > 10000
MaxAtoms == 10000

\* dist_matrix < 8.0
ContactThreshold == 8

\* hidden size of the checkpoint facebook/esm2_t6_8M_UR50D
HiddenSize == 320

\* nn.Conv2d(..., kernel_size=3, padding=1)
KernelSize == 3

Padding == 1

\* out_channels of conv1
Conv1Out == 64

\* outputs >= 0.5, in tenths
PredThreshold == 5

---------------------------------------------------------------------------
(* Helpers on sequences.                                                    *)

Range(s) == { s[i] : i \in 1..Len(s) }

Min(a, b) == IF a <= b THEN a ELSE b

\* The sequences over S of length lo..hi.
SeqsOf(S, lo, hi) == UNION { [ 1..k -> S ] : k \in lo..hi }

\* Python's s[lo:hi] on 0-based positions lo <= hi <= len(s).
Slice(s, lo, hi) == [ k \in 1..(hi - lo) |-> s[lo + k] ]

---------------------------------------------------------------------------
(* PDB IDs and the download directory.                                      *)

\* pdb_id.split('_')[0]
EntryId(pdb_id) == pdb_id[1]

\* The IDs of rcsb_pdb_ids_cell_HS_mem_asym_ab.txt the sample is drawn from.
Pool == { << "1ABC", "1" >>, << "1ABC", "2" >>, << "2XYZ" >>, << "3BIG", "1" >> }

Entries == { EntryId(id) : id \in Pool }

\* An absent file; a file that is there is << content >>.
NoFile == << >>

---------------------------------------------------------------------------
(* Structure files.  A file's content is what ProDy makes of it: whether   *)
(* parsing or the distance computation raises, the number of atoms, and    *)
(* the CA atoms in order, each with its residue name and its coordinates.  *)

None == << >>

Some(x) == << x >>

P0 == << 0, 0, 0 >>

P1 == << 8, 0, 0 >>

P2 == << 7, 3, 2 >>

P3 == << 0, 8, 1 >>

\* Lattice points: |P0 P1| = 8 exactly, |P0 P2|^2 = 62, |P0 P3|^2 = 65.
Grid == { P0, P1, P2, P3 }

Atom(r, c) == [ resname |-> r, coord |-> c ]

Structure(x, n, atoms) == [ raises |-> x, natoms |-> n, ca |-> atoms ]

\* What https://files.rcsb.org/download/<entry>.pdb answers for the pool.
Remote(entry) ==
    CASE entry = "1ABC" ->
           Structure("none", MaxAtoms, << Atom("ALA", P0), Atom("UNK", P2) >>)
      [] entry = "2XYZ" ->
           Structure("none", 4369,
                     << Atom("GLY", P0), Atom("ALA", P1), Atom("GLY", P3) >>)
      [] entry = "3BIG" ->
           Structure("none", MaxAtoms + 1, << Atom("ALA", P0) >>)
      [] OTHER ->
           Structure("parsePDB", 0, << >>)

---------------------------------------------------------------------------
(* extract_sequence_and_contacts                                            *)

\* Bio.PDB.Polypeptide.three_to_one: a KeyError for a name outside the table.
ThreeToOneTable ==
    [ ALA |-> "A", CYS |-> "C", ASP |-> "D", GLU |-> "E", PHE |-> "F",
      GLY |-> "G", HIS |-> "H", ILE |-> "I", LYS |-> "K", LEU |-> "L",
      MET |-> "M", ASN |-> "N", PRO |-> "P", GLN |-> "Q", ARG |-> "R",
      SER |-> "S", THR |-> "T", VAL |-> "V", TRP |-> "W", TYR |-> "Y" ]

three_to_one(resname) ==
    IF resname \in DOMAIN ThreeToOneTable
    THEN ThreeToOneTable[resname] ELSE "KeyError"

\* An unknown residue dropped instead of written as 'X'.
AppendResidueDropUnknown(seq, resname) ==
    IF three_to_one(resname) = "KeyError"
    THEN seq ELSE Append(seq, three_to_one(resname))

\* seq += one_letter, or seq += 'X' on KeyError
AppendResidue(seq, resname) ==
    IF three_to_one(resname) = "KeyError"
    THEN Append(seq, "X") ELSE Append(seq, three_to_one(resname))

RECURSIVE BuildSeq(_, _)
BuildSeq(seq, residues) ==
    IF residues = << >> THEN seq
    ELSE BuildSeq(AppendResidue(seq, Head(residues)), Tail(residues))

Sq(x) == x * x

\* The square of the Euclidean distance of two lattice points.
DistSq(a, b) == Sq(a[1] - b[1]) + Sq(a[2] - b[2]) + Sq(a[3] - b[3])

\* buildDistMatrix(coords, coords), every entry squared.
buildDistMatrixSq(coords) ==
    [ i \in 1..Len(coords) |->
        [ j \in 1..Len(coords) |-> DistSq(coords[i], coords[j]) ] ]

\* dist <= 8.0
IsContactInclusive(dsq) == dsq <= ContactThreshold * ContactThreshold

\* dist < 8.0, on the squares (both sides are non-negative).
IsContact(dsq) == dsq < ContactThreshold * ContactThreshold

\* (dist_matrix < 8.0).astype(np.float32)
Threshold(dist_sq) ==
    [ i \in DOMAIN dist_sq |->
        [ j \in DOMAIN dist_sq[i] |-> IF IsContact(dist_sq[i][j]) THEN 1 ELSE 0 ] ]

ReturnNone == [ exc |-> "none", seq |-> None, cmap |-> None ]

Raise(e) == [ exc |-> e, seq |-> None, cmap |-> None ]

\* numAtoms() >= 10000
TooManyAtomsInclusive(structure) == structure.natoms >= MaxAtoms

TooManyAtoms(structure) == structure.natoms > MaxAtoms

\* The body of the try block.
ExtractBody(file) ==
    IF file.raises = "parsePDB" THEN Raise("Exception")
    ELSE LET structure == file
             ca_atoms  == structure.ca
         IN IF ca_atoms = << >> THEN ReturnNone
            ELSE IF TooManyAtoms(structure) THEN ReturnNone
            ELSE LET residues == [ k \in DOMAIN ca_atoms |-> ca_atoms[k].resname ]
                     seq      == BuildSeq(<< >>, residues)
                     coords   == [ k \in DOMAIN ca_atoms |-> ca_atoms[k].coord ]
                 IN IF file.raises = "buildDistMatrix" THEN Raise("Exception")
                    ELSE [ exc  |-> "none",
                           seq  |-> Some(seq),
                           cmap |-> Some(Threshold(buildDistMatrixSq(coords))) ]

\* No except clause: the exception leaves the function.
HandleExtractErrorNoCatch(r) == r

\* except Exception: print, return None, None
HandleExtractError(r) == IF r.exc = "none" THEN r ELSE ReturnNone

extract_sequence_and_contacts(file) == HandleExtractError(ExtractBody(file))

---------------------------------------------------------------------------
(* get_esm2_embeddings, ProteinDataset, ContactPredictionModel.forward      *)

\* The residue letters of the ESM vocabulary.
EsmVocab ==
    { "L", "A", "G", "V", "S", "E", "R", "T", "I", "D", "P", "K", "Q", "N",
      "F", "Y", "M", "H", "W", "C", "X", "B", "U", "Z", "O", ".", "-" }

\* tokenizer(seq, add_special_tokens=False): one token per residue letter.
Tokenize(seq) ==
    [ k \in DOMAIN seq |-> IF seq[k] \in EsmVocab THEN seq[k] ELSE "<unk>" ]

\* outputs.last_hidden_state[0, :, :]: one row of HiddenSize per token.
Embed(seq) ==
    [ tokens |-> Tokenize(seq), shape |-> << Len(Tokenize(seq)), HiddenSize >> ]

\* The embeddings returned in the reverse of the input order.
get_esm2_embeddings_reversed(seqs) ==
    [ k \in DOMAIN seqs |-> Embed(seqs[Len(seqs) + 1 - k]) ]

get_esm2_embeddings(seqs) == [ k \in DOMAIN seqs |-> Embed(seqs[k]) ]

\* The shape of a contact map: (rows, columns).
MapShape(cmap) == << Len(cmap), IF cmap = << >> THEN 0 ELSE Len(cmap[1]) >>

\* ProteinDataset.__getitem__: the assertion L_emb == L_contact.
GetItem(cmaps, embs, idx) ==
    LET embedding   == embs[idx]
        contact_map == cmaps[idx]
        L_emb       == embedding.shape[1]
        L_contact   == MapShape(contact_map)[1]
    IN IF L_emb = L_contact
       THEN [ exc |-> "none", embedding |-> embedding.shape,
              contact_map |-> MapShape(contact_map) ]
       ELSE [ exc |-> "AssertionError", embedding |-> embedding.shape,
              contact_map |-> MapShape(contact_map) ]

\* Output side of nn.Conv2d(kernel_size=3, padding=1) with stride 1.
ConvOut(side) == side + 2 * Padding - KernelSize + 1

\* ContactPredictionModel.forward on a batch of one (L, D) embedding: the
\* shape of the output, and the error of conv1 on a channel mismatch.
ForwardShape(emb_shape, in_dim) ==
    LET L        == emb_shape[1]
        D        == emb_shape[2]
        pairwise == << 1, L, L, 2 * D >>
        x0       == << 1, pairwise[4], pairwise[2], pairwise[3] >>
        x1       == << 1, Conv1Out, ConvOut(x0[3]), ConvOut(x0[4]) >>
        x2       == << 1, 1, ConvOut(x1[3]), ConvOut(x1[4]) >>
    IN [ exc   |-> IF x0[2] # 2 * in_dim THEN "RuntimeError" ELSE "none",
         shape |-> << x2[1], x2[3], x2[4] >> ]

\* One pass of a DataLoader(batch_size=1) through the model and the loss:
\* the first exception met, and the (output, target) shapes of the items.
RunLoader(cmaps, embs, in_dim) ==
    LET items  == [ k \in DOMAIN embs |-> GetItem(cmaps, embs, k) ]
        outs   == [ k \in DOMAIN embs |-> ForwardShape(items[k].embedding, in_dim) ]
        shapes == [ k \in DOMAIN embs |->
                      [ output |-> outs[k].shape,
                        target |-> << 1 >> \o items[k].contact_map ] ]
    IN [ exc |-> IF \E k \in DOMAIN items : items[k].exc # "none"
                   THEN "AssertionError"
                 ELSE IF \E k \in DOMAIN outs : outs[k].exc # "none"
                   THEN "RuntimeError"
                 ELSE IF \E k \in DOMAIN shapes :
                            shapes[k].output # shapes[k].target
                   THEN "ValueError"
                 ELSE "none",
         shapes |-> shapes ]

---------------------------------------------------------------------------
(* The run: one action per loop iteration or cell.                          *)

\* Nothing loaded, split, embedded or trained yet.
NothingLoaded ==
    /\ sequences = << >>
    /\ contact_maps = << >>
    /\ origin = << >>
    /\ ld_i = 1

NothingSplit ==
    /\ indices = << >>
    /\ train_indices = << >> /\ val_indices = << >> /\ test_indices = << >>
    /\ train_sequences = << >> /\ val_sequences = << >> /\ test_sequences = << >>
    /\ train_contact_maps = << >> /\ val_contact_maps = << >>
    /\ test_contact_maps = << >>
    /\ train_embeddings = << >> /\ val_embeddings = << >>
    /\ test_embeddings = << >>

NothingTrained ==
    /\ epoch = 0
    /\ embedding_dim = 0
    /\ last_shapes = << >>

NothingEvaluated ==
    /\ ev_loader = << >>
    /\ ev_outputs = << >>
    /\ all_predictions = << >>
    /\ all_targets = << >>

\* threshold=0.3, as a fraction
DefaultThreshold == [ num |-> 3, den |-> 10 ]

\* find_similar_structures not called.
NothingSearched ==
    /\ sequence = << >>
    /\ threshold = DefaultThreshold
    /\ similar_structs = << >>
    /\ aggregated_struct = << >>

\* The state before cell 9: the IDs are sampled (with replacement, as
\* np.random.choice does) and the download directory is empty.
Init ==
    /\ pc = "download"
    /\ error = "none"
    /\ pdb_ids \in [ 1..SampleSize -> Pool ]
    /\ disk = [ e \in Entries |-> NoFile ]
    /\ dl_i = 1
    /\ http_log = << >>
    /\ dl_failed = << >>
    /\ dl_calls = << >>
    /\ existing_pdb_files = << >>
    /\ NothingLoaded
    /\ NothingSplit
    /\ NothingTrained
    /\ NothingEvaluated
    /\ NothingSearched

Running == error = "none"

splitVars == << indices, train_indices, val_indices, test_indices,
                train_sequences, val_sequences, test_sequences,
                train_contact_maps, val_contact_maps, test_contact_maps >>

embedVars == << train_embeddings, val_embeddings, test_embeddings >>

loadVars == << existing_pdb_files, ld_i, sequences, contact_maps, origin >>

trainVars == << epoch, embedding_dim, last_shapes >>

evalVars == << ev_loader, ev_outputs, all_predictions, all_targets >>

similarVars == << sequence, threshold, similar_structs, aggregated_struct >>

downloadVars == << disk, dl_i, http_log, dl_failed, dl_calls >>

\* What one pass through the try block of download_pdb_files can meet.
DownloadOutcomes ==
    { "ok", "ConnectionError", "HTTPError", "OSError_open", "OSError_write" }

\* except requests.exceptions.RequestException
IsRequestException(outcome) == outcome \in { "ConnectionError", "HTTPError" }

\* A file that open(file_path, 'w') created and f.write did not fill.
Truncated == Structure("parsePDB", 0, << >>)

\* os.path.exists(file_path)
Exists(entry) == disk[entry] # NoFile

\* requests.get(url), as the server sees it: the list position and the entry.
Request(i, entry_id) == [ pos |-> i, entry |-> entry_id ]

\* The ID whose request failed is tried again.
RetryAfterFailure(i) == i

\* The except clause ends the iteration: the for loop takes the next ID.
AfterFailure(i) == i + 1

\* One iteration of "for pdb_id in pdb_ids" in download_pdb_files.
DownloadStep ==
    /\ Running /\ pc = "download" /\ dl_i <= Len(pdb_ids)
    /\ LET entry_id == EntryId(pdb_ids[dl_i])
       IN IF Exists(entry_id)
          THEN /\ dl_i' = dl_i + 1
               /\ UNCHANGED << disk, http_log, dl_failed, error >>
          ELSE \E outcome \in DownloadOutcomes :
                 /\ http_log' = Append(http_log, Request(dl_i, entry_id))
                 /\ disk' = CASE outcome = "ok" ->
                                   [ disk EXCEPT ![entry_id] = << Remote(entry_id) >> ]
                              [] outcome = "OSError_write" ->
                                   [ disk EXCEPT ![entry_id] = << Truncated >> ]
                              [] OTHER -> disk
                 /\ IF outcome = "ok"
                    THEN /\ dl_i' = dl_i + 1
                         /\ UNCHANGED << dl_failed, error >>
                    ELSE IF IsRequestException(outcome)
                    THEN /\ dl_i' = AfterFailure(dl_i)
                         /\ dl_failed' = Append(dl_failed, entry_id)
                         /\ UNCHANGED error
                    ELSE /\ error' = "OSError"
                         /\ UNCHANGED << dl_i, dl_failed >>
    /\ UNCHANGED << pc, pdb_ids, dl_calls, loadVars, splitVars, embedVars,
                    trainVars, evalVars, similarVars >>

\* The loop left one ID early.
DownloadFinishedEarly == dl_i >= Len(pdb_ids)

DownloadFinished == dl_i > Len(pdb_ids)

\* Cell 12 up to the loading loop: pdb_files and existing_pdb_files.  The
\* call of download_pdb_files is over, and its logs with it.
ListFiles ==
    /\ Running /\ pc = "download" /\ DownloadFinished
    /\ LET pdb_files == [ k \in DOMAIN pdb_ids |-> EntryId(pdb_ids[k]) ]
       IN existing_pdb_files' = SelectSeq(pdb_files, Exists)
    /\ sequences' = << >>
    /\ contact_maps' = << >>
    /\ origin' = << >>
    /\ ld_i' = 1
    /\ pc' = "load"
    /\ http_log' = << >>
    /\ dl_failed' = << >>
    /\ UNCHANGED << error, pdb_ids, disk, dl_i, dl_calls, splitVars, embedVars,
                    trainVars, evalVars, similarVars >>

\* One iteration of "for pdb_file in existing_pdb_files".
LoadStep ==
    /\ Running /\ pc = "load" /\ ld_i <= Len(existing_pdb_files)
    /\ LET r == extract_sequence_and_contacts(disk[existing_pdb_files[ld_i]][1])
       IN IF r.exc # "none"
          THEN /\ error' = r.exc
               /\ UNCHANGED << ld_i, sequences, contact_maps, origin >>
          ELSE /\ ld_i' = ld_i + 1
               /\ UNCHANGED error
               /\ IF r.seq # None /\ r.cmap # None
                  THEN /\ sequences' = Append(sequences, r.seq[1])
                       /\ contact_maps' = Append(contact_maps, r.cmap[1])
                       /\ origin' = Append(origin, existing_pdb_files[ld_i])
                  ELSE UNCHANGED << sequences, contact_maps, origin >>
    /\ UNCHANGED << pc, pdb_ids, existing_pdb_files, downloadVars, splitVars,
                    embedVars, trainVars, evalVars, similarVars >>

LoadFinished == ld_i > Len(existing_pdb_files)

---------------------------------------------------------------------------
(* Cell 15: the split.                                                      *)

\* The orders np.random.shuffle can leave list(range(n)) in.
Shuffles(n) ==
    { p \in [ 1..n -> 0..(n - 1) ] : \A a, b \in 1..n : p[a] = p[b] => a = b }

\* int(0.7 * n) and int(0.85 * n); the float products floor to these for
\* every n up to the program's sample of 20.
TrainEnd(n) == (7 * n) \div 10

\* The validation share taken for the cumulative one.
ValEndAsShare(n) == (15 * n) \div 100

ValEnd(n) == (85 * n) \div 100

TrainSlice(idx, n) == Slice(idx, 0, TrainEnd(n))

ValSlice(idx, n) == Slice(idx, TrainEnd(n), ValEnd(n))

TestSlice(idx, n) == Slice(idx, ValEnd(n), Len(idx))

\* [xs[i] for i in idxs], on 0-based indices
Pick(xs, idxs) == [ k \in DOMAIN idxs |-> xs[idxs[k] + 1] ]

Split ==
    /\ Running /\ pc = "load" /\ LoadFinished
    /\ LET num_sequences == Len(sequences)
       IN \E shuffled \in Shuffles(num_sequences) :
            /\ indices' = shuffled
            /\ train_indices' = TrainSlice(shuffled, num_sequences)
            /\ val_indices' = ValSlice(shuffled, num_sequences)
            /\ test_indices' = TestSlice(shuffled, num_sequences)
    /\ train_sequences' = Pick(sequences, train_indices')
    /\ val_sequences' = Pick(sequences, val_indices')
    /\ test_sequences' = Pick(sequences, test_indices')
    /\ train_contact_maps' = Pick(contact_maps, train_indices')
    /\ val_contact_maps' = Pick(contact_maps, val_indices')
    /\ test_contact_maps' = Pick(contact_maps, test_indices')
    /\ pc' = "embed"
    /\ UNCHANGED << error, pdb_ids, downloadVars, loadVars, embedVars,
                    trainVars, evalVars, similarVars >>

\* Cell 16: the three calls of get_esm2_embeddings.
ComputeEmbeddings ==
    /\ Running /\ pc = "embed"
    /\ train_embeddings' = get_esm2_embeddings(train_sequences)
    /\ val_embeddings' = get_esm2_embeddings(val_sequences)
    /\ test_embeddings' = get_esm2_embeddings(test_sequences)
    /\ pc' = "datasets"
    /\ UNCHANGED << error, pdb_ids, downloadVars, loadVars, splitVars,
                    trainVars, evalVars, similarVars >>

\* Cells 18 to 22: the datasets, the loaders, and
\* embedding_dim = train_embeddings[0].shape[-1].
CreateDatasets ==
    /\ Running /\ pc = "datasets"
    /\ IF train_embeddings = << >>
       THEN /\ error' = "IndexError"
            /\ UNCHANGED << pc, embedding_dim >>
       ELSE /\ embedding_dim' = train_embeddings[1].shape[2]
            /\ pc' = "train"
            /\ UNCHANGED error
    /\ UNCHANGED << pdb_ids, downloadVars, loadVars, splitVars, embedVars,
                    epoch, last_shapes, evalVars, similarVars >>

\* train_model(model, train_loader, ...) of one epoch.
TrainEpoch ==
    /\ Running /\ pc = "train" /\ epoch < NumEpochs
    /\ LET r == RunLoader(train_contact_maps, train_embeddings, embedding_dim)
       IN /\ last_shapes' = r.shapes
          /\ error' = r.exc
          /\ pc' = IF r.exc = "none" THEN "validate" ELSE pc
    /\ UNCHANGED << pdb_ids, downloadVars, loadVars, splitVars, embedVars,
                    epoch, embedding_dim, evalVars, similarVars >>

\* evaluate_model: torch.cat of an empty list raises when the loader is empty.
EvaluateLoader(cmaps, embs, in_dim) ==
    LET r == RunLoader(cmaps, embs, in_dim)
    IN IF r.exc = "none" /\ embs = << >>
       THEN [ exc |-> "RuntimeError", shapes |-> r.shapes ]
       ELSE r

\* evaluate_model(model, val_loader, ...) closing an epoch.
Validate ==
    /\ Running /\ pc = "validate"
    /\ LET r == EvaluateLoader(val_contact_maps, val_embeddings, embedding_dim)
       IN /\ last_shapes' = r.shapes
          /\ error' = r.exc
          /\ IF r.exc # "none"
             THEN UNCHANGED << pc, epoch >>
             ELSE /\ epoch' = epoch + 1
                  /\ pc' = IF epoch + 1 < NumEpochs THEN "train" ELSE "test"
    /\ UNCHANGED << pdb_ids, downloadVars, loadVars, splitVars, embedVars,
                    embedding_dim, evalVars, similarVars >>

\* evaluate_model(model, test_loader, ...) after the last epoch.
Test ==
    /\ Running /\ pc = "test"
    /\ LET r == EvaluateLoader(test_contact_maps, test_embeddings, embedding_dim)
       IN /\ last_shapes' = r.shapes
          /\ error' = r.exc
          /\ pc' = IF r.exc = "none" THEN "done" ELSE pc
    /\ UNCHANGED << pdb_ids, downloadVars, loadVars, splitVars, embedVars,
                    epoch, embedding_dim, evalVars, similarVars >>

Next ==
    \/ DownloadStep
    \/ ListFiles
    \/ LoadStep
    \/ Split
    \/ ComputeEmbeddings
    \/ CreateDatasets
    \/ TrainEpoch
    \/ Validate
    \/ Test

Spec == Init /\ [][Next]_vars

---------------------------------------------------------------------------
(* The loading loop of cell 12 on any download directory: SpecLoad starts  *)
(* at the loop with generated files on disk.                                *)

\* The i-th CA atom of a generated chain sits at the i-th point of this walk.
Walk == << P0, P2, P1, P3 >>

Chain(names) == [ k \in DOMAIN names |-> Atom(names[k], Walk[k]) ]

\* Files that parse: every chain of up to MaxRes residues, known or not,
\* with an atom count at and just over the limit.
ParsedStructures ==
    { Structure("none", n, Chain(names)) :
        n \in { MaxAtoms, MaxAtoms + 1 },
        names \in SeqsOf({ "ALA", "UNK" }, 0, MaxRes) }

\* Files on which parsePDB or buildDistMatrix raises.
FaultyStructures ==
    { Structure("parsePDB", 0, << >>),
      Structure("buildDistMatrix", MaxAtoms, Chain(<< "GLY" >>)) }

Structures == ParsedStructures \cup FaultyStructures

\* Files of one known residue type whose CA coordinates range over the grid.
CoordStructures ==
    { Structure("none", MaxAtoms, [ k \in DOMAIN cs |-> Atom("ALA", cs[k]) ]) :
        cs \in SeqsOf(Grid, 1, MaxCoords) }

FileLists ==
    SeqsOf(Structures, 0, MaxFiles) \cup { << s >> : s \in CoordStructures }

InitLoad ==
    /\ pc = "load"
    /\ error = "none"
    /\ pdb_ids = << >>
    /\ \E files \in FileLists :
         /\ disk = [ k \in DOMAIN files |-> << files[k] >> ]
         /\ existing_pdb_files = [ k \in DOMAIN files |-> k ]
    /\ dl_i = 1
    /\ http_log = << >>
    /\ dl_failed = << >>
    /\ dl_calls = << >>
    /\ NothingLoaded
    /\ NothingSplit
    /\ NothingTrained
    /\ NothingEvaluated
    /\ NothingSearched

NextLoad == LoadStep

SpecLoad == InitLoad /\ [][NextLoad]_vars

---------------------------------------------------------------------------
(* download_pdb_files on any ID list and any download directory, called    *)
(* again on the same list after it returned: SpecDownload.                 *)

\* pdb_structures/ before the first call: each file there or not.
DownloadDirs ==
    { d \in [ Entries -> { NoFile } \cup { << Remote(e) >> : e \in Entries } ] :
        \A e \in Entries : d[e] \in { NoFile, << Remote(e) >> } }

InitDownload ==
    /\ pc = "download"
    /\ error = "none"
    /\ pdb_ids \in SeqsOf(Pool, 0, MaxIds)
    /\ disk \in DownloadDirs
    /\ dl_i = 1
    /\ http_log = << >>
    /\ dl_failed = << >>
    /\ dl_calls = << >>
    /\ existing_pdb_files = << >>
    /\ NothingLoaded
    /\ NothingSplit
    /\ NothingTrained
    /\ NothingEvaluated
    /\ NothingSearched

\* What a call that returned leaves behind: its requests and its failures.
Returned == [ requests |-> http_log, failed |-> dl_failed ]

\* download_pdb_files(pdb_ids) once more, after the call before it returned.
DownloadAgain ==
    /\ Running /\ pc = "download" /\ DownloadFinished
    /\ Len(dl_calls) + 1 < MaxCalls
    /\ dl_calls' = Append(dl_calls, Returned)
    /\ dl_i' = 1
    /\ http_log' = << >>
    /\ dl_failed' = << >>
    /\ UNCHANGED << pc, error, pdb_ids, disk, loadVars, splitVars, embedVars,
                    trainVars, evalVars, similarVars >>

NextDownload == DownloadStep \/ DownloadAgain

SpecDownload == InitDownload /\ [][NextDownload]_vars

---------------------------------------------------------------------------
(* evaluate_model on any dataloader and any model outputs: SpecEval.        *)

\* Values of the sigmoid output, in tenths: below, at and above 0.5.
OutputValues == { 4, 5, 6 }

\* The outputs a model can give for a target of this shape.
ModelOutputs(contact_map) ==
    [ DOMAIN contact_map -> [ DOMAIN contact_map -> OutputValues ] ]

\* outputs > 0.5
BinarizeStrict(x) == IF x > PredThreshold THEN 1 ELSE 0

\* (outputs >= 0.5).float()
Binarize(x) == IF x >= PredThreshold THEN 1 ELSE 0

Preds(outputs) ==
    [ i \in DOMAIN outputs |->
        [ j \in DOMAIN outputs[i] |-> Binarize(outputs[i][j]) ] ]

\* m.reshape(-1) of a matrix
RECURSIVE Reshape1(_)
Reshape1(m) == IF m = << >> THEN << >> ELSE Head(m) \o Reshape1(Tail(m))

\* torch.cat([p.reshape(-1) for p in ms])
RECURSIVE CatFlat(_)
CatFlat(ms) == IF ms = << >> THEN << >> ELSE Reshape1(Head(ms)) \o CatFlat(Tail(ms))

\* The contact maps a generated dataloader yields.
TargetMaps ==
    { Threshold(buildDistMatrixSq(cs)) :
        cs \in { << P0 >>, << P0, P1 >> } }

InitEval ==
    /\ pc = "evaluate"
    /\ error = "none"
    /\ pdb_ids = << >>
    /\ disk = << >>
    /\ dl_i = 1
    /\ http_log = << >>
    /\ dl_failed = << >>
    /\ dl_calls = << >>
    /\ existing_pdb_files = << >>
    /\ NothingLoaded
    /\ NothingSplit
    /\ NothingTrained
    /\ ev_loader \in SeqsOf(TargetMaps, 0, MaxBatches)
    /\ ev_outputs = << >>
    /\ all_predictions = << >>
    /\ all_targets = << >>
    /\ NothingSearched

pipelineVars == << pdb_ids, downloadVars, loadVars, splitVars, embedVars, trainVars >>

\* One iteration of "for embedding, contact_map in dataloader".
EvalBatch ==
    /\ Running /\ pc = "evaluate" /\ Len(all_predictions) < Len(ev_loader)
    /\ LET contact_map == ev_loader[Len(all_predictions) + 1]
       IN \E outputs \in ModelOutputs(contact_map) :
            /\ ev_outputs' = Append(ev_outputs, outputs)
            /\ all_predictions' = Append(all_predictions, Preds(outputs))
            /\ all_targets' = Append(all_targets, contact_map)
    /\ UNCHANGED << pc, error, ev_loader, pipelineVars, similarVars >>

\* After the loop: the two torch.cat calls.
EvalConcat ==
    /\ Running /\ pc = "evaluate" /\ Len(all_predictions) = Len(ev_loader)
    /\ IF all_predictions = << >>
       THEN /\ error' = "RuntimeError"
            /\ UNCHANGED << pc, all_predictions, all_targets >>
       ELSE /\ all_predictions' = CatFlat(all_predictions)
            /\ all_targets' = CatFlat(all_targets)
            /\ pc' = "metrics"
            /\ UNCHANGED error
    /\ UNCHANGED << ev_loader, ev_outputs, pipelineVars, similarVars >>

NextEval == EvalBatch \/ EvalConcat

SpecEval == InitEval /\ [][NextEval]_vars

---------------------------------------------------------------------------
(* find_similar_structures.  A mean is kept as the matrix of the sums and   *)
(* the number of maps summed, so that no entry is rounded.                 *)

\* sum(a == b for a, b in zip(sequence[:min_len], seq[:min_len]))
Matches(s, seq, min_len) ==
    Cardinality({ k \in 1..min_len : s[k] = seq[k] })

\* similarity > threshold with similarity = matches / min_len, min_len > 0
IsSimilar(matches, min_len, thr) == matches * thr.den > thr.num * min_len

\* cmap[:n, :n]
Crop(cmap, n) ==
    [ i \in 1..Min(n, Len(cmap)) |->
        [ j \in 1..Min(n, Len(cmap[i])) |-> cmap[i][j] ] ]

\* The for loop from position k on; matches / min_len raises for min_len = 0.
RECURSIVE SimilarLoop(_, _, _, _, _, _)
SimilarLoop(s, seqs, cmaps, thr, k, structs) ==
    IF k > Min(Len(seqs), Len(cmaps))
    THEN [ exc |-> "none", similar_structs |-> structs ]
    ELSE LET seq     == seqs[k]
             cmap    == cmaps[k]
             seq_len == Len(s)
             min_len == Min(Len(s), Len(seq))
             matches == Matches(s, seq, min_len)
         IN IF min_len = 0
            THEN [ exc |-> "ZeroDivisionError", similar_structs |-> structs ]
            ELSE IF IsSimilar(matches, min_len, thr)
            THEN SimilarLoop(s, seqs, cmaps, thr, k + 1,
                             Append(structs, Crop(cmap, seq_len)))
            ELSE SimilarLoop(s, seqs, cmaps, thr, k + 1, structs)

SameShape(structs) ==
    \A a, b \in DOMAIN structs : MapShape(structs[a]) = MapShape(structs[b])

\* The largest side of the maps.
RECURSIVE MaxSide(_)
MaxSide(structs) ==
    IF structs = << >> THEN 0
    ELSE LET rest == MaxSide(Tail(structs))
         IN IF Len(Head(structs)) >= rest THEN Len(Head(structs)) ELSE rest

\* NumPy broadcasting of square maps: every side is 1 or the largest side.
Broadcastable(structs) ==
    \A k \in DOMAIN structs : Len(structs[k]) \in { 1, MaxSide(structs) }

\* Entry (i, j) of a map broadcast to a larger shape.
BroadcastAt(m, i, j) ==
    m[IF Len(m) = 1 THEN 1 ELSE i][IF Len(m[1]) = 1 THEN 1 ELSE j]

RECURSIVE SumAt(_, _, _)
SumAt(structs, i, j) ==
    IF structs = << >> THEN 0
    ELSE BroadcastAt(Head(structs), i, j) + SumAt(Tail(structs), i, j)

\* The mean along axis 0 of maps broadcast to side n.
MeanOf(structs, n) ==
    [ sum   |-> [ i \in 1..n |-> [ j \in 1..n |-> SumAt(structs, i, j) ] ],
      count |-> Len(structs) ]

\* np.mean(similar_structs, axis=0) on a non-empty list.  Maps of one shape
\* give their mean.  Maps of different shapes make no array: NumPy from 1.24
\* on raises ValueError; an older NumPy builds an array of objects and adds
\* them with broadcasting, which raises ValueError unless they broadcast.
NpMean(structs) ==
    IF SameShape(structs)
    THEN { [ exc |-> "none", value |-> Some(MeanOf(structs, Len(structs[1]))) ] }
    ELSE { [ exc |-> "ValueError", value |-> None ] }
         \cup IF Broadcastable(structs)
              THEN { [ exc   |-> "none",
                       value |-> Some(MeanOf(structs, MaxSide(structs))) ] }
              ELSE { }

\* np.zeros((n, n), dtype=np.float32)
Zeros(n) == [ sum |-> [ i \in 1..n |-> [ j \in 1..n |-> 0 ] ], count |-> 1 ]

\* if aggregated_struct.shape[0] != seq_len: aggregated_struct[:seq_len, :seq_len]
EnsureShape(agg, seq_len) ==
    IF Len(agg.sum) # seq_len
    THEN [ sum |-> Crop(agg.sum, seq_len), count |-> agg.count ]
    ELSE agg

\* What a call can do: the exception it raises or what it returns, with the
\* similar_structs it had gathered.
find_similar_structures(s, seqs, cmaps, thr) ==
    LET seq_len == Len(s)
        loop    == SimilarLoop(s, seqs, cmaps, thr, 1, << >>)
        structs == loop.similar_structs
    IN IF loop.exc # "none"
       THEN { [ exc |-> loop.exc, similar_structs |-> structs,
                aggregated_struct |-> None ] }
       ELSE IF structs # << >>
       THEN { [ exc |-> m.exc, similar_structs |-> structs,
                aggregated_struct |->
                    IF m.exc = "none"
                    THEN Some(EnsureShape(m.value[1], seq_len)) ELSE None ] :
              m \in NpMean(structs) }
       ELSE { [ exc |-> "none", similar_structs |-> structs,
                aggregated_struct |-> Some(Zeros(seq_len)) ] }

\* Residue letters of the generated sequences.
Letters == { "A", "G" }

\* Sequences as cell 12 loads them: at least one residue.
SimSequences == SeqsOf(Letters, 1, MaxSeqLen)

\* The contact maps of a chain of n residues that is compact (every pair in
\* contact) or stretched (no pair in contact).
MapsOfLen(n) ==
    { [ i \in 1..n |-> [ j \in 1..n |-> IF i = j THEN 1 ELSE v ] ] :
        v \in { 0, 1 } }

\* A candidate: a sequence and a contact map of its length.
Candidates ==
    UNION { { [ seq |-> q, cmap |-> m ] : m \in MapsOfLen(Len(q)) } :
              q \in SimSequences }

\* The default threshold, and one that a fraction of two positions can equal.
Thresholds == { DefaultThreshold, [ num |-> 1, den |-> 2 ] }

InitSimilar ==
    /\ pc = "similar"
    /\ error = "none"
    /\ pdb_ids = << >>
    /\ disk = << >>
    /\ dl_i = 1
    /\ http_log = << >>
    /\ dl_failed = << >>
    /\ dl_calls = << >>
    /\ existing_pdb_files = << >>
    /\ ld_i = 1
    /\ origin = << >>
    /\ \E cands \in SeqsOf(Candidates, 0, MaxCands) :
         /\ sequences = [ k \in DOMAIN cands |-> cands[k].seq ]
         /\ contact_maps = [ k \in DOMAIN cands |-> cands[k].cmap ]
    /\ NothingSplit
    /\ NothingTrained
    /\ NothingEvaluated
    /\ sequence \in SimSequences
    /\ threshold \in Thresholds
    /\ similar_structs = << >>
    /\ aggregated_struct = None

\* The call find_similar_structures(sequence, sequences, contact_maps, threshold).
FindSimilar ==
    /\ Running /\ pc = "similar"
    /\ \E r \in find_similar_structures(sequence, sequences, contact_maps,
                                         threshold) :
         /\ error' = r.exc
         /\ similar_structs' = r.similar_structs
         /\ aggregated_struct' = r.aggregated_struct
         /\ pc' = IF r.exc = "none" THEN "returned" ELSE pc
    /\ UNCHANGED << sequence, threshold, pipelineVars, evalVars >>

NextSimilar == FindSimilar

SpecSimilar == InitSimilar /\ [][NextSimilar]_vars

---------------------------------------------------------------------------
(* Properties.                                                              *)

AfterSplit == { "embed", "datasets", "train", "validate", "test", "done" }

\* C1: once the data is split, no sequence of the test set is identical to,
\* or was read from the same PDB entry as, a sequence of the training set.
NoTrainTestLeakage ==
    pc \in AfterSplit =>
        /\ \A s \in Range(train_sequences), t \in Range(test_sequences) : s # t
        /\ \A a \in Range(train_indices), b \in Range(test_indices) :
               origin[a + 1] # origin[b + 1]

\* C2: once the data is split, train_indices, val_indices and test_indices
\* are pairwise disjoint, cover the positions 0..n-1 of the loaded sequences,
\* and hold each position once.
SplitIsPartition ==
    pc \in AfterSplit =>
        LET n  == Len(sequences)
            tr == Range(train_indices)
            va == Range(val_indices)
            te == Range(test_indices)
        IN /\ tr \cup va \cup te = 0..(n - 1)
           /\ tr \cap va = {} /\ tr \cap te = {} /\ va \cap te = {}
           /\ Len(train_indices) + Len(val_indices) + Len(test_indices) = n

\* C2's case: four sequences were loaded, shuffled out of order, and all
\* three parts are non-empty.
SplitOfFourReached ==
    /\ pc = "embed"
    /\ Len(sequences) = 4
    /\ indices # << 0, 1, 2, 3 >>
    /\ train_indices # << >> /\ val_indices # << >> /\ test_indices # << >>

\* C3: no exception leaves download_pdb_files: whatever fails for one ID,
\* the loop goes on to the next ID.
DownloadNeverRaises == pc = "download" => error = "none"

\* A file extract_sequence_and_contacts can make a sequence and a map of.
Processable(s) == s.raises = "none" /\ s.ca # << >> /\ s.natoms <= MaxAtoms

ProcessableFile(f) == Processable(disk[f][1])

\* The files the loading loop has gone through.
Visited == SubSeq(existing_pdb_files, 1, ld_i - 1)

\* C4: in the loading loop a file that cannot be processed makes
\* extract_sequence_and_contacts return (None, None), no exception stops the
\* loop, the loop can go on to the next file, and exactly the processable
\* files visited so far have an entry in sequences and contact_maps.
LoadSkipsOnlyBadFiles ==
    pc = "load" =>
        /\ error = "none"
        /\ \A f \in DOMAIN disk :
               ~ProcessableFile(f) =>
                   extract_sequence_and_contacts(disk[f][1]) = ReturnNone
        /\ ld_i <= Len(existing_pdb_files) => ENABLED LoadStep
        /\ origin = SelectSeq(Visited, ProcessableFile)
        /\ Len(sequences) = Len(origin)
        /\ Len(contact_maps) = Len(origin)

\* C4's case: the first file failed to parse and the second one was loaded.
LoadedAfterBadFile ==
    /\ pc = "load" /\ ld_i = 3
    /\ disk[1][1].raises = "parsePDB"
    /\ origin = << 2 >>
    /\ Len(sequences) = 1

\* C6: every loaded entry comes from a structure of at most 10000 atoms with
\* a CA atom; a visited structure of more than 10000 atoms has no entry, and
\* a visited, otherwise processable structure of exactly 10000 atoms has one.
AtomLimitFilter ==
    pc = "load" =>
        /\ \A k \in DOMAIN origin :
               /\ disk[origin[k]][1].natoms <= 10000
               /\ disk[origin[k]][1].ca # << >>
        /\ \A f \in Range(Visited) :
               /\ disk[f][1].natoms > 10000 => f \notin Range(origin)
               /\ ( /\ disk[f][1].natoms = 10000
                    /\ disk[f][1].raises = "none"
                    /\ disk[f][1].ca # << >> ) => f \in Range(origin)

\* C6's case: a file of 10001 atoms was skipped and one of 10000 was loaded.
AtomLimitReached ==
    /\ pc = "load" /\ ld_i = 3
    /\ disk[1][1].natoms = 10001 /\ disk[1][1].ca # << >>
    /\ disk[1][1].raises = "none"
    /\ disk[2][1].natoms = 10000
    /\ origin = << 2 >>

\* C7: a loaded contact map is square with one row per CA atom, holds only
\* 0 and 1, has 1 at (i, j) exactly when the two CA atoms are less than 8.0
\* apart, is symmetric and has 1 on its diagonal.
ContactMapIsThresholdedDistance ==
    pc = "load" =>
        \A k \in DOMAIN contact_maps :
            LET ca == disk[origin[k]][1].ca
                m  == contact_maps[k]
                dd(i, j) == (ca[i].coord[1] - ca[j].coord[1]) ^ 2
                            + (ca[i].coord[2] - ca[j].coord[2]) ^ 2
                            + (ca[i].coord[3] - ca[j].coord[3]) ^ 2
            IN /\ DOMAIN m = 1..Len(ca)
               /\ \A i \in 1..Len(ca) :
                      /\ DOMAIN m[i] = 1..Len(ca)
                      /\ m[i][i] = 1
                      /\ \A j \in 1..Len(ca) :
                             /\ m[i][j] \in { 0, 1 }
                             /\ m[i][j] = 1 <=> dd(i, j) < 64
                             /\ m[i][j] = m[j][i]

\* C7's case: three CA atoms, two of them exactly 8 apart (no contact) and
\* the third within 8 of both.
ContactAtThresholdReached ==
    /\ pc = "load"
    /\ Len(contact_maps) = 1
    /\ disk[1][1].ca = << Atom("ALA", P0), Atom("ALA", P1), Atom("ALA", P2) >>
    /\ contact_maps[1] = << << 1, 0, 1 >>, << 0, 1, 1 >>, << 1, 1, 1 >> >>

\* The three parts of the split: indices, sequences, maps, embeddings.
Parts ==
    { [ idx |-> train_indices, seqs |-> train_sequences,
        cmaps |-> train_contact_maps, embs |-> train_embeddings ],
      [ idx |-> val_indices, seqs |-> val_sequences,
        cmaps |-> val_contact_maps, embs |-> val_embeddings ],
      [ idx |-> test_indices, seqs |-> test_sequences,
        cmaps |-> test_contact_maps, embs |-> test_embeddings ] }

AfterEmbed == { "datasets", "train", "validate", "test", "done" }

\* C5: sequences and contact_maps always have the same length and entry i
\* of both was extracted from the same file; after the split, position k of
\* a part's sequences and contact maps, and after the embedding position k
\* of its embeddings, all belong to the protein the part's k-th index names.
ParallelArrays ==
    /\ Len(sequences) = Len(contact_maps)
    /\ Len(sequences) = Len(origin)
    /\ \A i \in DOMAIN sequences :
           LET r == extract_sequence_and_contacts(disk[origin[i]][1])
           IN r.seq = << sequences[i] >> /\ r.cmap = << contact_maps[i] >>
    /\ pc \in AfterSplit =>
           \A p \in Parts :
               /\ DOMAIN p.seqs = DOMAIN p.idx
               /\ DOMAIN p.cmaps = DOMAIN p.idx
               /\ \A k \in DOMAIN p.idx :
                      /\ p.seqs[k] = sequences[p.idx[k] + 1]
                      /\ p.cmaps[k] = contact_maps[p.idx[k] + 1]
    /\ pc \in AfterEmbed =>
           \A p \in Parts :
               /\ DOMAIN p.embs = DOMAIN p.idx
               /\ \A k \in DOMAIN p.idx :
                      p.embs[k].tokens = sequences[p.idx[k] + 1]

\* C5's case: two different proteins are in the training set, in an order
\* other than the loading order, and the embeddings are computed.
ParallelArraysReached ==
    /\ pc = "train"
    /\ Len(train_sequences) = 2
    /\ train_sequences[1] # train_sequences[2]
    /\ train_indices[1] > train_indices[2]
    /\ Len(train_embeddings) = 2

\* C8: a loaded sequence has one character per CA atom of its file and its
\* contact map has that many rows and columns; an embedding has one row per
\* character of its sequence and as many rows as its contact map; the
\* assertion of __getitem__ never fails and every model output has the
\* shape (1, L, L) of its target.
ShapesMatch ==
    /\ error \notin { "AssertionError", "ValueError" }
    /\ \A i \in DOMAIN sequences :
           LET n == Len(disk[origin[i]][1].ca)
           IN /\ Len(sequences[i]) = n
              /\ Len(contact_maps[i]) = n
              /\ \A r \in 1..n : Len(contact_maps[i][r]) = n
    /\ pc \in AfterEmbed =>
           \A p \in Parts : \A k \in DOMAIN p.embs :
               /\ p.embs[k].shape[1] = Len(p.seqs[k])
               /\ p.embs[k].shape[1] = Len(p.cmaps[k])
    /\ \A k \in DOMAIN last_shapes :
           /\ last_shapes[k].output = last_shapes[k].target
           /\ Len(last_shapes[k].output) = 3
           /\ last_shapes[k].output[2] = last_shapes[k].output[3]

\* C8's case: the run finished, and a protein with an unknown residue went
\* through the test loader.
ShapesMatchReached ==
    /\ pc = "done"
    /\ \E k \in DOMAIN test_sequences : "X" \in Range(test_sequences[k])
    /\ last_shapes # << >>

\* C9: each prediction of a batch is 1 where the model output is at least
\* 0.5 and 0 elsewhere; the concatenated all_predictions holds only 0 and 1,
\* entry for entry the thresholded outputs, and is as long as all_targets.
PredictionsAreBinary ==
    /\ pc = "evaluate" =>
           \A k \in DOMAIN all_predictions :
               \A i \in DOMAIN all_predictions[k] :
                   \A j \in DOMAIN all_predictions[k][i] :
                       /\ all_predictions[k][i][j] \in { 0, 1 }
                       /\ all_predictions[k][i][j] = 1 <=> ev_outputs[k][i][j] >= 5
    /\ pc = "metrics" =>
           /\ Range(all_predictions) \subseteq { 0, 1 }
           /\ Len(all_predictions) = Len(all_targets)
           /\ Len(all_predictions) = Len(CatFlat(ev_outputs))
           /\ \A n \in DOMAIN all_predictions :
                  all_predictions[n] = 1 <=> CatFlat(ev_outputs)[n] >= 5

\* C9's case: two batches were evaluated and concatenated, with an output of
\* exactly 0.5 predicted as 1 and an output below 0.5 predicted as 0.
PredictionsReached ==
    /\ pc = "metrics"
    /\ Len(ev_outputs) = 2
    /\ \E n \in DOMAIN all_predictions :
           CatFlat(ev_outputs)[n] = 5 /\ all_predictions[n] = 1
    /\ \E n \in DOMAIN all_predictions :
           CatFlat(ev_outputs)[n] = 4 /\ all_predictions[n] = 0

\* The stage of the run: 1 fetch structures, 2 parse coordinates and derive
\* labels, 3 split and embed sequences, 4 train and evaluate.
StageRank ==
    CASE pc = "download" -> 1
      [] pc = "load" -> 2
      [] pc = "embed" -> 3
      [] OTHER -> 4

\* C10: the stages run in the order fetch, parse and label, embed,
\* train/evaluate, one after the other; a stage is entered only when the
\* stage before it has gone through every item, a step never goes back to an
\* earlier stage, and a later stage changes nothing an earlier stage made.
SequentialStages ==
    /\ [](StageRank >= 2 => dl_i = Len(pdb_ids) + 1)
    /\ [](StageRank >= 3 => ld_i = Len(existing_pdb_files) + 1)
    /\ [](StageRank >= 4 =>
             /\ Len(train_embeddings) = Len(train_sequences)
             /\ Len(val_embeddings) = Len(val_sequences)
             /\ Len(test_embeddings) = Len(test_sequences))
    /\ [][ /\ StageRank' \in { StageRank, StageRank + 1 }
           /\ StageRank >= 2 => UNCHANGED downloadVars
           /\ StageRank >= 3 => UNCHANGED loadVars
           /\ StageRank >= 4 => UNCHANGED << splitVars, embedVars >> ]_vars

\* C10's case: a run that went through every stage and every epoch, with
\* two downloaded structures.
RunCompleted ==
    /\ pc = "done"
    /\ error = "none"
    /\ epoch = NumEpochs
    /\ \A e \in { "1ABC", "2XYZ" } : disk[e] # NoFile

\* C11: in one call of download_pdb_files the requests are sent in the order
\* of the ID list with at most one request per list position, a step sends at
\* most one request, a request that failed leaves the loop at the next
\* position, a position whose file is in the download directory when the
\* loop reaches it sends no request, and a call that follows a call which
\* returned without a failure sends no request.
NoRetry ==
    /\ [](\A k \in 1..Len(pdb_ids) :
             Cardinality({ n \in DOMAIN http_log : http_log[n].pos = k }) <= 1)
    /\ [](\A m, n \in DOMAIN http_log :
             m < n => http_log[m].pos < http_log[n].pos)
    /\ [](Len(dl_failed) <= Len(http_log))
    /\ [](error = "none" => \A n \in DOMAIN http_log : http_log[n].pos < dl_i)
    /\ []((dl_calls # << >> /\ dl_calls[Len(dl_calls)].failed = << >>)
             => http_log = << >>)
    /\ [][ /\ Len(http_log') <= Len(http_log) + 1
           /\ (dl_i <= Len(pdb_ids) /\ Exists(EntryId(pdb_ids[dl_i])))
                  => (http_log' = http_log /\ dl_i' = dl_i + 1)
           /\ Len(dl_failed') > Len(dl_failed) => dl_i' = dl_i + 1 ]_vars

\* C11's case: a first call with a failed request went on through the list
\* and returned, a second call requested the missing file once and returned
\* without a failure, and a third call went through the list with no request.
NoRetryReached ==
    /\ pc = "download"
    /\ Len(pdb_ids) >= 2
    /\ Len(dl_calls) = 2
    /\ dl_calls[1].failed # << >>
    /\ Len(dl_calls[1].requests) >= 2
    /\ Len(dl_calls[2].requests) = 1
    /\ dl_calls[2].failed = << >>
    /\ DownloadFinished
    /\ http_log = << >>

\* The shape of what find_similar_structures returned.
ReturnedShape == MapShape(aggregated_struct[1].sum)

\* C12: a call of find_similar_structures raises nothing, and what it
\* returns has len(sequence) rows and len(sequence) columns, whatever the
\* candidates: shorter than the input sequence or not, maps of one size or not.
ResultIsSeqLenSquare ==
    /\ pc = "similar" => error = "none"
    /\ pc = "returned" =>
           /\ aggregated_struct # None
           /\ ReturnedShape = << Len(sequence), Len(sequence) >>

\* The fraction of position-wise equal characters of the input sequence and
\* candidate k over the first min(len(sequence), len(candidate)) positions
\* is strictly greater than threshold.
OverThreshold(k) ==
    LET n == IF Len(sequence) <= Len(sequences[k])
             THEN Len(sequence) ELSE Len(sequences[k])
        equal == { p \in 1..n : sequence[p] = sequences[k][p] }
    IN n > 0 /\ Cardinality(equal) * threshold.den > threshold.num * n

\* The candidates the claim has included, in the order of the list.
IncludedCandidates ==
    SelectSeq([ k \in DOMAIN sequences |-> k ], OverThreshold)

\* The sum of entry (i, j) of the maps of the candidates ks.
RECURSIVE SumOfEntries(_, _, _)
SumOfEntries(ks, i, j) ==
    IF ks = << >> THEN 0
    ELSE contact_maps[Head(ks)][i][j] + SumOfEntries(Tail(ks), i, j)

\* C13: a call of find_similar_structures returns; the maps it gathered are
\* those of the candidates whose fraction of equal positions is strictly
\* greater than threshold, cropped to the first seq_len rows and columns;
\* with no such candidate the result is the seq_len x seq_len matrix of
\* zeros, and otherwise the result has the shape of each cropped map and
\* every entry of it is the arithmetic mean of that entry of those maps.
ResultIsMeanOfSimilar ==
    /\ pc = "similar" => error = "none"
    /\ pc = "returned" =>
           LET seq_len == Len(sequence)
               inc     == IncludedCandidates
               result  == aggregated_struct[1]
               side    == Len(result.sum)
           IN /\ Len(similar_structs) = Len(inc)
              /\ \A n \in DOMAIN inc :
                     LET cmap == contact_maps[inc[n]]
                         kept == IF seq_len <= Len(cmap) THEN seq_len ELSE Len(cmap)
                     IN /\ Len(similar_structs[n]) = kept
                        /\ \A i, j \in 1..kept :
                               similar_structs[n][i][j] = cmap[i][j]
                        /\ kept = side
              /\ inc = << >> =>
                     /\ side = seq_len
                     /\ \A i, j \in 1..seq_len : result.sum[i][j] = 0
              /\ inc # << >> =>
                     \A i, j \in 1..side :
                         result.sum[i][j] * Len(inc)
                             = SumOfEntries(inc, i, j) * result.count

=============================================================================
